---- MODULE Spec2Model ----
(***************************************************************************)
(* Model of catkit/surface.py: SlabGenerator (build_basis,                 *)
(* get_unique_terminations, get_slab) and ext_gcd.                         *)
(*                                                                         *)
(* Heights along z are measured on an integer grid: the rotated basis cell *)
(* is ZCell grid units high, so two atoms are in the same layer exactly    *)
(* when their grid heights are equal (the floating point tolerance of the  *)
(* source only absorbs rounding noise).                                    *)
(***************************************************************************)
EXTENDS Integers, Sequences, FiniteSets, TLC

\* ---------------------------------------------------------------- bounds
MaxMiller == 2
MaxShear == 1
ZCell == 3          \* height of the rotated basis cell, in grid units
MaxPerLayer == 2    \* atoms of the basis that share one height
MaxLayers == 4      \* largest requested layer count
MaxFixed == 2       \* largest requested fixed-layer count
NSym == 1           \* symmetry operations besides the identity
NGraph == 2         \* isomorphism classes of surface bond graphs
MaxIterm == 2       \* termination indices range over -(MaxIterm+1)..MaxIterm
MaxCalls == 2       \* calls made on one generator

None == "None"
\* c1, c2, c3 not bound
NoBasis == <<>>

VARIABLES
    miller,      \* self.miller_index
    cell,        \* self.bulk.cell (integer lattice vectors a1, a2, a3)
    pc,          \* "new" | "built" | "failed": outcome of __init__
    cvec,        \* the integer basis rows <<c1, c2, c3>> of build_basis, or NoBasis
    solved,      \* TRUE once the linear solve of build_basis has run
    error,       \* the exception that ended the last call, or None
    perLayer,    \* self._basis: number of atoms at each grid height of the cell
    layers,      \* self.layers
    fixed,       \* self.fixed
    vacuum,      \* self.vacuum
    symmetry,    \* what utils.get_symmetry reports for self._basis
    graphClass,  \* isomorphism class of the half-slab bond graph cut at a height
    tagOrder,    \* direction in which get_unique_coordinates numbers the layers
    cache,       \* self._unique_terminations (NoList for None)
    ret,         \* the last call: its arguments, locals and return value
    nEnum,       \* how often the body of get_unique_terminations has run
    nWrites,     \* how often self._unique_terminations was assigned after __init__
    ncalls       \* calls made so far

basisVars == <<miller, cell, pc, cvec, solved, error>>
configVars == <<perLayer, layers, fixed, vacuum, symmetry, graphClass, tagOrder>>
callVars == <<cache, ret, nEnum, nWrites, ncalls>>
vars == <<basisVars, configVars, callVars>>

\* ------------------------------------------------------ integer helpers
Abs(x) == IF x < 0 THEN -x ELSE x

\* Python's % : the result has the sign of the divisor
PyMod(a, b) == IF b > 0 THEN a % b ELSE -((-a) % (-b))

\* Python's // : floor division
PyFloorDiv(a, b) ==
    IF b > 0 THEN (a - PyMod(a, b)) \div b
             ELSE (PyMod(a, b) - a) \div (-b)

RECURSIVE gcd(_, _)
gcd(a, b) == IF b = 0 THEN Abs(a) ELSE gcd(b, Abs(a) % Abs(b))

\* round(n / d) for d # 0, ties to the even neighbour
Round(n, d) ==
    LET nn == IF d < 0 THEN -n ELSE n
        dd == Abs(d)
        fl == (nn - (nn % dd)) \div dd
        r  == nn % dd
    IN  IF 2 * r < dd THEN fl
        ELSE IF 2 * r > dd THEN fl + 1
        ELSE IF fl % 2 = 0 THEN fl ELSE fl + 1

Dot(u, v) == u[1] * v[1] + u[2] * v[2] + u[3] * v[3]
Scale(s, u) == <<s * u[1], s * u[2], s * u[3]>>
Add(u, v) == <<u[1] + v[1], u[2] + v[2], u[3] + v[3]>>
Sub(u, v) == <<u[1] - v[1], u[2] - v[2], u[3] - v[3]>>

Det(m) ==
      m[1][1] * (m[2][2] * m[3][3] - m[2][3] * m[3][2])
    - m[1][2] * (m[2][1] * m[3][3] - m[2][3] * m[3][1])
    + m[1][3] * (m[2][1] * m[3][2] - m[2][2] * m[3][1])

\* ---------------------------------------------------------------- ext_gcd
RECURSIVE ext_gcd(_, _)
ext_gcd(a, b) ==
    IF b = 0 THEN <<1, 0>>
    ELSE IF PyMod(a, b) = 0 THEN <<0, 1>>
    ELSE LET xy == ext_gcd(b, PyMod(a, b))
         IN  <<xy[2], xy[1] - xy[2] * PyFloorDiv(a, b)>>

\* ------------------------------------------------------------ build_basis
\* the branch test of line 75
AxisAligned(m) ==
    \/ (m[1] = 0 /\ m[2] = 0)
    \/ (m[1] = 0 /\ m[3] = 0)
    \/ (m[2] = 0 /\ m[3] = 0)

\* AxisBasis with the last if turned into an else
AxisBasisMutC7(m) ==
    IF m[1] # 0 /\ m[2] = 0 /\ m[3] = 0
        THEN <<<<0, 1, 0>>, <<0, 0, 1>>, <<1, 0, 0>>>>
    ELSE IF m[2] # 0 /\ m[3] = 0
        THEN <<<<0, 0, 1>>, <<1, 0, 0>>, <<0, 1, 0>>>>
    ELSE <<<<1, 0, 0>>, <<0, 1, 0>>, <<0, 0, 1>>>>

\* lines 76-81: three independent ifs, a later one overwrites an earlier one;
\* NoBasis when no if fires (c1, c2, c3 stay unbound)
AxisBasis(m) ==
    LET s1 == IF m[1] # 0 THEN <<<<0, 1, 0>>, <<0, 0, 1>>, <<1, 0, 0>>>> ELSE NoBasis
        s2 == IF m[2] # 0 THEN <<<<0, 0, 1>>, <<1, 0, 0>>, <<0, 1, 0>>>> ELSE s1
        s3 == IF m[3] # 0 THEN <<<<1, 0, 0>>, <<0, 1, 0>>, <<0, 0, 1>>>> ELSE s2
    IN  s3

\* lines 88-96: the shift i of (p, q) that makes c1 and c2 closest to orthogonal
OptimalShift(m, bulkcell, p, q) ==
    LET h == m[1]  k == m[2]  l == m[3]
        a1 == bulkcell[1]  a2 == bulkcell[2]  a3 == bulkcell[3]
        u == Sub(Scale(k, a1), Scale(h, a2))
        w == Sub(Scale(l, a1), Scale(h, a3))
        v == Sub(Scale(l, a2), Scale(k, a3))
        k1 == Dot(Add(Scale(p, u), Scale(q, w)), v)
        k2 == Dot(Sub(Scale(l, u), Scale(k, w)), v)
    IN  IF Abs(k2) > 0 THEN -Round(k1, k2) ELSE 0

\* Rows with the sign of the second component of c1 lost
RowsMutC10(m, p, q) ==
    LET h == m[1]  k == m[2]  l == m[3]
        ab == ext_gcd(p * k + q * l, h)
        g == Abs(gcd(l, k))
    IN  << <<p * k + q * l, p * h, -q * h>>,
           <<0, PyFloorDiv(l, g), PyFloorDiv(-k, g)>>,
           <<ab[2], ab[1] * p, ab[1] * q>> >>

\* lines 98-102 for given (p, q)
Rows(m, p, q) ==
    LET h == m[1]  k == m[2]  l == m[3]
        ab == ext_gcd(p * k + q * l, h)
        g == Abs(gcd(l, k))
    IN  << <<p * k + q * l, -p * h, -q * h>>,
           <<0, PyFloorDiv(l, g), PyFloorDiv(-k, g)>>,
           <<ab[2], ab[1] * p, ab[1] * q>> >>

\* lines 83-102
GeneralBasis(m, bulkcell) ==
    LET pq == ext_gcd(m[2], m[3])
        i == OptimalShift(m, bulkcell, pq[1], pq[2])
    IN  Rows(m, pq[1] + i * m[3], pq[2] - i * m[2])

\* lines 73-105: the matrix handed to the linear solve, NoBasis when c1 is unbound
BasisMatrix(m, bulkcell) ==
    IF AxisAligned(m) THEN AxisBasis(m) ELSE GeneralBasis(m, bulkcell)

\* ===================================================================
\* The generator after construction: terminations and slabs
\* ===================================================================
NoList == <<>>      \* self._unique_terminations is None
NoIterm == <<>>     \* iterm=None; an integer index i is passed as <<i>>
NoShift == <<>>     \* no termination offset applied
Heights == 0..(ZCell - 1)
VacuumSet == {0, 2}

\* an atom: grid height z, in-plane label n, layer tag (0 until tagged)
Atom(z, n, t) == [z |-> z, n |-> n, tag |-> t]

\* self._basis.copy()
BasisAtoms ==
    UNION { { Atom(z, i, 0) : i \in 1..perLayer[z] } : z \in Heights }

Zs(atoms) == { a.z : a \in atoms }

RECURSIVE SortAsc(_)
SortAsc(S) ==
    IF S = {} THEN <<>>
    ELSE LET m == CHOOSE x \in S : \A y \in S : x <= y
         IN  <<m>> \o SortAsc(S \ {m})

\* utils.get_unique_coordinates: the distinct heights, ascending
get_unique_coordinates(atoms) == SortAsc(Zs(atoms))

\* utils.get_unique_coordinates(tag=True): every atom is tagged with the rank
\* of its height, counted from the top ("depth") or from the bottom ("height")
TagAtoms(atoms, order) ==
    LET values == Zs(atoms)
        rank == [ v \in values |->
                    IF order = "depth"
                    THEN 1 + Cardinality({ z \in values : z > v })
                    ELSE 1 + Cardinality({ z \in values : z < v }) ]
    IN  { Atom(a.z, a.n, rank[a.z]) : a \in atoms }

RECURSIVE GcdSet(_)
GcdSet(S) ==
    IF S = {} THEN 0
    ELSE LET x == CHOOSE y \in S : TRUE IN gcd(x, GcdSet(S \ {x}))

LayerCount(atoms, z) == Cardinality({ a \in atoms : a.z = z })

\* utils.get_primitive_cell: the in-plane cell shrinks by the largest factor
\* common to all layers; heights are untouched
get_primitive_cell(atoms) ==
    LET count == [ z \in Zs(atoms) |-> LayerCount(atoms, z) ]
        g == GcdSet({ count[z] : z \in DOMAIN count })
    IN  { a \in atoms : a.n * g <= count[a.z] }

\* ------------------------------------------------ get_unique_terminations
\* a symmetry operation: zrot says that its rotation passes the test of
\* lines 138-142, tz is the z component of its translation
SymOp(zrot, tz) == [zrot |-> zrot, tz |-> tz]
Identity == SymOp(TRUE, 0)

\* lines 136-148: the distinct z-translations of the rotations about z
RECURSIVE ZSymmetryFrom(_, _, _)
ZSymmetryFrom(sym, i, acc) ==
    IF i > Len(sym) THEN acc
    ELSE IF sym[i].zrot /\ (\A j \in 1..Len(acc) : acc[j] # sym[i].tz)
         THEN ZSymmetryFrom(sym, i + 1, Append(acc, sym[i].tz))
         ELSE ZSymmetryFrom(sym, i + 1, acc)

ZSymmetry(sym) == ZSymmetryFrom(sym, 1, <<>>)

\* SymmetryFound with the inner loop starting at the second plane
SymmetryFoundMutC9(zp, zsym, i) ==
    \E j \in 2..(i - 1) : \E s \in 1..Len(zsym) : zsym[s] = zp[i] - zp[j]

\* lines 153-162: plane i differs from an earlier plane by a z-symmetry shift
SymmetryFound(zp, zsym, i) ==
    \E j \in 1..(i - 1) : \E s \in 1..Len(zsym) : zsym[s] = zp[i] - zp[j]

\* lines 151-165
RECURSIVE UniqueShiftFrom(_, _, _, _)
UniqueShiftFrom(zp, zsym, i, acc) ==
    IF i > Len(zp) THEN acc
    ELSE IF SymmetryFound(zp, zsym, i)
         THEN UniqueShiftFrom(zp, zsym, i + 1, acc)
         ELSE UniqueShiftFrom(zp, zsym, i + 1, Append(acc, zp[i]))

UniqueShift(zp, zsym) == UniqueShiftFrom(zp, zsym, 2, <<zp[1]>>)

\* Isomorph with the comparison against the accepted graphs left out
IsomorphMutC8(accepted, z) == FALSE

\* lines 198-207: the graph of shift z is isomorphic to an accepted graph
Isomorph(accepted, z) ==
    \E g \in 1..Len(accepted) : graphClass[accepted[g]] = graphClass[z]

\* lines 172-211
RECURSIVE GraphUniqueFrom(_, _, _)
GraphUniqueFrom(us, i, acc) ==
    IF i > Len(us) THEN acc
    ELSE IF Isomorph(acc, us[i])
         THEN GraphUniqueFrom(us, i + 1, acc)
         ELSE GraphUniqueFrom(us, i + 1, Append(acc, us[i]))

\* lines 128-215: the locals and the return value of one run of the body;
\* stored is TRUE when the run assigns self._unique_terminations
Enumerate ==
    LET zp == get_unique_coordinates(BasisAtoms)
        us == UniqueShift(zp, ZSymmetry(symmetry))
    IN  IF Len(us) = 1
        THEN [ushift |-> us, terms |-> us, stored |-> FALSE]
        ELSE [ushift |-> us, terms |-> GraphUniqueFrom(us, 1, <<>>),
              stored |-> TRUE]

\* ---------------------------------------------------------------- get_slab
NoSlab == [atoms |-> {}, cellz |-> 0, fixedAtoms |-> {}, pbc |-> <<>>]

\* Truthy as the test "iterm is not None"
TruthyMutC4(it) == it # NoIterm

\* line 240: if iterm
Truthy(it) == it # NoIterm /\ it[1] # 0

\* InRange of a list that rejects negative indices
InRangeMutC5(i, n) == 0 <= i /\ i < n

\* line 245, list indexing: i is a valid index of a list of length n
InRange(i, n) == -n <= i /\ i < n

\* line 245, list indexing: the element index i selects
Item(list, i) == IF i >= 0 THEN list[i + 1] ELSE list[Len(list) + i + 1]

\* Repetitions with an integer division, which rounds down before the ceil
RepetitionsMutC1(want, have) == want \div have

\* line 256: np.ceil(self.layers / len(zlayers)), a true division
Repetitions(want, have) == (want + have - 1) \div have

\* IsFixed with >= for >
IsFixedMutC6(tag, fix) == tag >= fix

\* line 300: a.tag > fix
IsFixed(tag, fix) == tag > fix

MaxOf(S) == CHOOSE x \in S : \A y \in S : y <= x
MinOf(S) == CHOOSE x \in S : \A y \in S : x <= y

\* evaluates x once and hands the value to Op
With(x, Op(_)) == CHOOSE r \in { Op(v) : v \in {x} } : TRUE

\* lines 250-257: the layers of the basis and the replication along z
Replicate(start) ==
    LET nbasis == Len(get_unique_coordinates(start))
        reps == Repetitions(layers, nbasis)
    IN  [nbasis |-> nbasis, reps |-> reps, cellz |-> reps * ZCell,
         atoms |-> { Atom(a.z + r * ZCell, a.n, a.tag) :
                        a \in start, r \in 0..(reps - 1) }]

\* lines 267-280: tag the layers, cut below the requested layer, move to z = 0
Trim(rep) ==
    LET zlayers == get_unique_coordinates(rep.atoms)
        nz == Len(zlayers)
        take == IF layers < nz THEN layers ELSE nz
        ncut == zlayers[nz - take + 1]
        kept == { a \in TagAtoms(rep.atoms, tagOrder) : ~(a.z - ncut < 0) }
    IN  [cellz |-> rep.cellz - ncut,
         atoms |-> { Atom(a.z - ncut, a.n, a.tag) : a \in kept }]

\* lines 282-293: vacuum padding and primitive reduction
Pad(cut, primitive) ==
    IF vacuum = 0 THEN cut
    ELSE LET lo == MinOf(Zs(cut.atoms))
             hi == MaxOf(Zs(cut.atoms))
             centred == { Atom(a.z - lo + vacuum, a.n, a.tag) : a \in cut.atoms }
         IN  [cellz |-> (hi - lo) + 2 * vacuum,
              atoms |-> IF primitive
                        THEN TagAtoms(get_primitive_cell(centred), tagOrder)
                        ELSE centred]

\* lines 295-304: the fixed atoms, the wrap and the periodicity
Constrain(final) ==
    LET fix == MaxOf({ a.tag : a \in final.atoms }) - fixed
        wrap(a) == Atom(a.z % final.cellz, a.n, a.tag)
    IN  [atoms |-> { wrap(a) : a \in final.atoms },
         cellz |-> final.cellz,
         fixedAtoms |-> { wrap(a) : a \in
                            { b \in final.atoms : IsFixed(b.tag, fix) } },
         pbc |-> <<TRUE, TRUE, FALSE>>]

\* lines 250-306 applied to the (possibly shifted) copy of the basis;
\* raised is "IndexError" when the replicated slab has no layer to cut at
CutSlab(start, primitive) ==
    With(Replicate(start), LAMBDA rep :
        IF rep.atoms = {}
        THEN [raised |-> "IndexError", reps |-> rep.reps,
              nbasis |-> rep.nbasis, slab |-> NoSlab]
        ELSE With(Trim(rep), LAMBDA cut :
             With(Pad(cut, primitive), LAMBDA final :
                [raised |-> None, reps |-> rep.reps, nbasis |-> rep.nbasis,
                 slab |-> Constrain(final)])))

\* the record kept of a call
Call(op, it, prim, raised, enumerated, ushift, terms, zshift, reps, nbasis, slab) ==
    [op |-> op, iterm |-> it, primitive |-> prim, raised |-> raised,
     enumerated |-> enumerated, ushift |-> ushift, terms |-> terms,
     zshift |-> zshift, reps |-> reps, nbasis |-> nbasis, slab |-> slab]

NoCall == Call("__init__", NoIterm, FALSE, None, FALSE, <<>>, <<>>, NoShift,
               0, 0, NoSlab)

\* get_unique_terminations(self), lines 118-215
GetUniqueTerminations ==
    /\ pc = "built"
    /\ ncalls < MaxCalls
    /\ \E e \in { Enumerate } :
           /\ cache' = IF e.stored THEN e.terms ELSE cache
           /\ nWrites' = IF e.stored THEN nWrites + 1 ELSE nWrites
           /\ ret' = Call("get_unique_terminations", NoIterm, FALSE, None,
                          TRUE, e.ushift, e.terms, NoShift, 0, 0, NoSlab)
    /\ nEnum' = nEnum + 1
    /\ ncalls' = ncalls + 1
    /\ UNCHANGED <<basisVars, configVars>>

\* lines 247-248: translate the copy by -zshift and wrap it into the cell
\* (the offset is a height of a plane, on the same grid as the atoms)
Shifted(zshift) ==
    { Atom((a.z - zshift) % ZCell, a.n, a.tag) : a \in BasisAtoms }

\* get_slab(self, iterm, primitive), lines 238-306
GetSlab(it, primitive) ==
    /\ pc = "built"
    /\ ncalls < MaxCalls
    /\ ncalls' = ncalls + 1
    /\ UNCHANGED <<basisVars, configVars>>
    /\ IF ~Truthy(it)
       THEN /\ \E c \in { CutSlab(BasisAtoms, primitive) } :
                    ret' = Call("get_slab", it, primitive, c.raised, FALSE,
                                <<>>, <<>>, NoShift, c.reps, c.nbasis, c.slab)
            /\ UNCHANGED <<cache, nEnum, nWrites>>
       ELSE \E e \in { Enumerate } :
            LET run == (cache = NoList)
                terminations == IF run THEN e.terms ELSE cache
                ushift == IF run THEN e.ushift ELSE <<>>
            IN  /\ cache' = IF run /\ e.stored THEN e.terms ELSE cache
                /\ nWrites' = IF run /\ e.stored THEN nWrites + 1 ELSE nWrites
                /\ nEnum' = IF run THEN nEnum + 1 ELSE nEnum
                /\ IF ~InRange(it[1], Len(terminations))
                   THEN ret' = Call("get_slab", it, primitive, "IndexError",
                                    run, ushift, terminations, NoShift,
                                    0, 0, NoSlab)
                   ELSE LET zshift == Item(terminations, it[1])
                        IN  \E c \in { CutSlab(Shifted(zshift), primitive) } :
                            ret' = Call("get_slab", it, primitive, c.raised,
                                        run, ushift, terminations, <<zshift>>,
                                        c.reps, c.nbasis, c.slab)

ItermSet == {NoIterm} \cup { <<i>> : i \in -(MaxIterm + 1)..MaxIterm }
CutIterms == {NoIterm, <<1>>}

\* calls on a generator whose slab is cut with and without vacuum
NextCut ==
    \/ GetUniqueTerminations
    \/ \E it \in CutIterms, primitive \in BOOLEAN : GetSlab(it, primitive)

\* calls on a generator without vacuum, where primitive has no effect
NextTerm ==
    \/ GetUniqueTerminations
    \/ \E it \in ItermSet : GetSlab(it, FALSE)

\* a generator built for Miller index (0, 0, 1) of a cubic bulk
Constructed ==
    /\ miller = <<0, 0, 1>>
    /\ cell = << <<1, 0, 0>>, <<0, 1, 0>>, <<0, 0, 1>> >>
    /\ pc = "built"
    /\ cvec = BasisMatrix(miller, cell)
    /\ solved = TRUE
    /\ error = None
    /\ cache = NoList
    /\ ret = NoCall
    /\ nEnum = 0
    /\ nWrites = 0
    /\ ncalls = 0

Occupied == (SUBSET Heights) \ {{}}

\* generators that differ in the slab they are asked to cut: the basis has
\* k atoms at each occupied height, or one more at its lowest height, and
\* every height is a termination of its own
InitSlab ==
    /\ Constructed
    /\ \E S \in Occupied, k \in 1..MaxPerLayer, extra \in {0, 1} :
           perLayer = [z \in Heights |->
                          IF z \notin S THEN 0
                          ELSE IF \A y \in S : z <= y THEN k + extra ELSE k]
    /\ layers \in 1..MaxLayers
    /\ fixed \in 0..MaxFixed
    /\ vacuum \in VacuumSet
    /\ tagOrder \in {"depth", "height"}
    /\ symmetry = <<Identity>>
    /\ graphClass = [z \in Heights |-> z + 1]

\* the operations get_symmetry may report besides the identity: rotations
\* about z with any z-translation, and one operation that is not such a rotation
SymOpSet == { SymOp(TRUE, t) : t \in Heights } \cup { SymOp(FALSE, 1) }

\* the classes are numbered in the order in which the planes meet them
Numbered(S, g) ==
    /\ \A z \in Heights \ S : g[z] = 1
    /\ \A z \in S : \/ g[z] = 1
                     \/ \E y \in S : y < z /\ g[y] + 1 >= g[z]

\* generators that differ in the symmetry and bonding of their basis
InitTerm ==
    /\ Constructed
    /\ \E S \in Occupied :
           /\ perLayer = [z \in Heights |-> IF z \in S THEN 1 ELSE 0]
           /\ graphClass \in { g \in [Heights -> 1..NGraph] : Numbered(S, g) }
    /\ layers = 2
    /\ fixed = 1
    /\ vacuum = 0
    /\ tagOrder = "depth"
    /\ symmetry \in { <<Identity>> \o s : s \in [1..NSym -> SymOpSet] }

SpecSlab == InitSlab /\ [][NextCut]_vars
SpecTerm == InitTerm /\ [][NextTerm]_vars

\* ===================================================================
\* Construction
\* ===================================================================
MillerSet == { <<h, k, l>> : h \in -MaxMiller..MaxMiller,
                             k \in -MaxMiller..MaxMiller,
                             l \in -MaxMiller..MaxMiller }

\* bulk cells with integer lattice vectors; the shear of a1 moves the optimum
CellSet == { << <<1, u, v>>, <<0, 1, 0>>, <<0, 0, 1>> >> :
                 u \in -MaxShear..MaxShear, v \in -MaxShear..MaxShear }

\* ------------------------------------------------------------- __init__
InitBasis ==
    /\ miller \in MillerSet
    /\ cell \in CellSet
    /\ pc = "new"
    /\ cvec = NoBasis
    /\ solved = FALSE
    /\ error = None
    /\ perLayer = [z \in Heights |-> IF z = 0 THEN 1 ELSE 0]
    /\ layers = 4
    /\ fixed = 2
    /\ vacuum = 0
    /\ tagOrder = "depth"
    /\ symmetry = <<Identity>>
    /\ graphClass = [z \in Heights |-> 1]
    /\ cache = NoList
    /\ ret = NoCall
    /\ nEnum = 0
    /\ nWrites = 0
    /\ ncalls = 0

\* SlabGenerator.__init__ (lines 50-58) with build_basis (lines 73-116)
Construct ==
    /\ pc = "new"
    /\ LET b == BasisMatrix(miller, cell)
       IN  IF b = NoBasis
           THEN /\ pc' = "failed"
                /\ error' = "UnboundLocalError"
                /\ UNCHANGED <<cvec, solved>>
           ELSE IF Det(b) = 0
           THEN /\ pc' = "failed"
                /\ error' = "LinAlgError"
                /\ cvec' = b
                /\ UNCHANGED solved
           ELSE /\ pc' = "built"
                /\ cvec' = b
                /\ solved' = TRUE
                /\ UNCHANGED error
    /\ UNCHANGED <<miller, cell, configVars, callVars>>

NextBasis == Construct

SpecBasis == InitBasis /\ [][NextBasis]_vars

\* ------------------------------------------------------------ build_basis claims
ZeroMiller == miller = <<0, 0, 0>>

\* C2: for every Miller index that is not all zero, the assembled basis
\* matrix [c1, c2, c3] has a determinant of absolute value 1.
C2_Unimodular == (pc = "built") => (Abs(Det(cvec)) = 1)

\* the error kinds of the design: an exception raised because the rows of
\* the basis were never bound is a rejected input, one raised by the solve
\* is a numerical degeneracy
ErrorKind(e) ==
    IF e = "UnboundLocalError" THEN "InvalidInput"
    ELSE IF e = "LinAlgError" THEN "NumericalDegeneracy"
    ELSE None

C10_InPlane ==
    (pc = "built") =>
        /\ Dot(miller, cvec[1]) = 0
        /\ Dot(miller, cvec[2]) = 0
        /\ Dot(miller, cvec[3]) # 0

C10_WitnessGeneral == pc = "built" /\ ~AxisAligned(miller) /\ miller[1] < 0

\* ------------------------------------------------------- get_slab claims
Returned == ret.op = "get_slab" /\ ret.raised = None
NLayers(atoms) == Cardinality(Zs(atoms))
Uniform(atoms) ==
    \A y, z \in Zs(atoms) : LayerCount(atoms, y) = LayerCount(atoms, z)
AtomsPerLayer(atoms) == LayerCount(atoms, MinOf(Zs(atoms)))
Smaller(a, b) == IF a < b THEN a ELSE b

\* C1: get_slab replicates the basis ceil(L/n) times along z (n the number
\* of layers of the basis, L the requested layer count) and the slab it
\* returns has exactly L distinct z-layers.
C1_ExactLayers ==
    Returned =>
        /\ ret.reps * ret.nbasis >= layers
        /\ (ret.reps - 1) * ret.nbasis < layers
        /\ NLayers(ret.slab.atoms) = layers

C1_Witness ==
    /\ Returned
    /\ ret.nbasis = 3
    /\ layers = 4
    /\ ret.reps = 2
    /\ ret.zshift # NoShift
    /\ NLayers(ret.slab.atoms) = 4

\* C6 as stated: for a slab with the same number of atoms in every layer the
\* fixed atoms are exactly F x (atoms per layer), for every L >= 1, F >= 0.
C6_FixedCount ==
    (Returned /\ Uniform(ret.slab.atoms)) =>
        Cardinality(ret.slab.fixedAtoms) = fixed * AtomsPerLayer(ret.slab.atoms)

\* C6 amended: for a slab with the same number of atoms in every layer the
\* fixed atoms are exactly min(F, L) whole layers, min(F, L) x (atoms per
\* layer) atoms.
C6_FixedCountCapped ==
    (Returned /\ Uniform(ret.slab.atoms)) =>
        /\ Cardinality(ret.slab.fixedAtoms) =
               Smaller(fixed, layers) * AtomsPerLayer(ret.slab.atoms)
        /\ ret.slab.fixedAtoms \subseteq ret.slab.atoms
        /\ \A a \in ret.slab.fixedAtoms : \A b \in ret.slab.atoms :
               a.z = b.z => b \in ret.slab.fixedAtoms

C6_Witness ==
    /\ Returned
    /\ Uniform(ret.slab.atoms)
    /\ AtomsPerLayer(ret.slab.atoms) = 2
    /\ fixed = 2
    /\ layers = 3
    /\ Cardinality(ret.slab.fixedAtoms) = 4

\* C4: get_slab with termination index 0 returns what get_slab without an
\* index returns: no offset is applied, the enumeration does not run and the
\* termination cache is left as it was.
C4_ZeroIsNoIndex ==
    [][ (ncalls' = ncalls + 1 /\ ret'.op = "get_slab" /\ ret'.iterm = <<0>>) =>
            /\ cache' = cache
            /\ nEnum' = nEnum
            /\ nWrites' = nWrites
            /\ ~ret'.enumerated
            /\ ret'.zshift = NoShift
            /\ ret'.raised = None
            /\ ret'.slab = CutSlab(BasisAtoms, ret'.primitive).slab ]_vars

C4_Witness ==
    /\ Returned
    /\ ret.iterm = <<0>>
    /\ perLayer[0] = 0
    /\ cache = NoList
    /\ ret.slab # NoSlab

\* C5 as stated: every index outside 0..n-1, negative ones included, fails
\* with an index-out-of-range error and returns no slab.
C5_OutsideRaises ==
    (ret.op = "get_slab" /\ ret.terms # <<>>) =>
        ((ret.iterm[1] < 0 \/ ret.iterm[1] >= Len(ret.terms)) =>
            (ret.raised = "IndexError" /\ ret.slab = NoSlab))

\* C5 amended: with n enumerated terminations, get_slab fails with an
\* index-out-of-range error and returns no slab exactly for the indices
\* i >= n and i < -n; an index -n <= i < 0 selects terminations[n + i].
C5_PythonIndexing ==
    (ret.op = "get_slab" /\ ret.terms # <<>>) =>
        LET i == ret.iterm[1]
            n == Len(ret.terms)
        IN  /\ (ret.raised = "IndexError") <=> (i >= n \/ i < -n)
            /\ (ret.raised = "IndexError") => (ret.slab = NoSlab)
            /\ (-n <= i /\ i < 0) =>
                   (ret.zshift = <<ret.terms[n + i + 1]>> /\ ret.slab # NoSlab)
            /\ (0 < i /\ i < n) =>
                   (ret.zshift = <<ret.terms[i + 1]>> /\ ret.slab # NoSlab)

C5_Witness ==
    /\ ret.op = "get_slab"
    /\ Len(ret.terms) = 2
    /\ ret.iterm = <<-3>>
    /\ ret.raised = "IndexError"

\* ------------------------------------------ get_unique_terminations claims
Planes == { z \in Heights : perLayer[z] > 0 }
ZShifts == { symmetry[i].tz : i \in { j \in 1..Len(symmetry) : symmetry[j].zrot } }
Elems(list) == { list[i] : i \in 1..Len(list) }

\* C3: the enumeration runs on the first request only; once a call has
\* produced the list the cache holds it, and the cache is written at most once.
C3_ComputedOnce ==
    /\ nEnum <= 1
    /\ nWrites <= 1
    /\ ret.enumerated => cache = ret.terms

\* C8 as stated: the returned list has length 1 exactly when a single unique
\* shift survives the symmetry reduction.
C8_SingleIffOneShift ==
    ret.enumerated => ((Len(ret.terms) = 1) <=> (Len(ret.ushift) = 1))

\* C8 amended: a single surviving unique shift is returned as the list; when
\* two or more survive, the list has more than one termination exactly when
\* two of the surviving shifts have bond graphs that are not isomorphic.
C8_SingleIffOneGraph ==
    ret.enumerated =>
        /\ (Len(ret.ushift) = 1) => (ret.terms = ret.ushift)
        /\ (Len(ret.ushift) >= 2) =>
              ((Len(ret.terms) > 1) <=>
                  (\E y, z \in Elems(ret.ushift) : graphClass[y] # graphClass[z]))
        /\ Len(ret.terms) >= 1

C8_Witness ==
    /\ ret.enumerated
    /\ Len(ret.ushift) >= 2
    /\ Len(ret.terms) = 1

\* C9 as stated: a plane is dropped exactly when its difference from an
\* earlier KEPT plane is a z-symmetry shift.
C9_DroppedIffKeptMatch ==
    ret.enumerated =>
        \A z \in Planes :
            (z \notin Elems(ret.ushift)) <=>
                (\E y \in Elems(ret.ushift) : y < z /\ (z - y) \in ZShifts)

\* C9 amended: a plane is dropped exactly when its difference from some
\* earlier plane, kept or dropped, is a z-symmetry shift.
C9_DroppedIffAnyMatch ==
    ret.enumerated =>
        \A z \in Planes :
            (z \notin Elems(ret.ushift)) <=>
                (\E y \in Planes : y < z /\ (z - y) \in ZShifts)

C9_Witness ==
    /\ ret.enumerated
    /\ \E z \in Planes :
          /\ z \notin Elems(ret.ushift)
          /\ ~(\E y \in Elems(ret.ushift) : y < z /\ (z - y) \in ZShifts)
====
